---- MODULE Spec2Model ----
(***************************************************************************)
(* A model of better-https-proxy-agent (src/index.js, the current          *)
(* revision at lines 232-576): an https.Agent whose createConnection       *)
(* tunnels through an HTTP proxy with CONNECT, caps the number of live     *)
(* tunnels, queues the requests beyond the cap, and caches TLS sessions.   *)
(*                                                                         *)
(* JavaScript runs the handlers one at a time, to completion: every action *)
(* below is one handler (or one call of the caller into the agent), with   *)
(* everything it calls.                                                    *)
(***************************************************************************)
EXTENDS Integers, Sequences, FiniteSets

\* ------------------------------------------------------------- bounds

\* Number of createConnection calls the caller makes.
MaxReq == 3
\* Number of distinct origin keys (_agentKey values).
NumKeys == 1
\* Largest maxSockets the agent is configured with.
MaxCap == 1
\* Largest timeout, in milliseconds, the caller passes to setTimeout.
MaxT == 1
\* Largest keep-alive delay, in seconds, the caller passes to setKeepAlive.
MaxDelay == 1
\* Number of distinct timeout callbacks.
MaxCb == 2
\* Most 'timeout' listeners the stream holds at a time.
MaxListeners == 2
\* Most 'timeout' events a stream sees.
MaxTimeouts == 2
\* Number of tunnels the caller opens one after the other.
MaxTunnels == 2
\* The longest tail of a pool key and the longest host name, in characters.
MaxKeyLen == 2
\* The largest port number.
MaxPort == 10

Reqs == 1..MaxReq
Keys == 1..NumKeys

\* options._agentKey left undefined (falsy at lines 299 and 331).
NoKey == 0
\* No session in the cache: _getSession returns undefined (line 337).
None == 0

\* The session tlsSocket.getSession() returns for the tunnel of request r
\* (line 299): every handshake negotiates its own.
Ticket(r) == r

VARIABLES
    maxSockets,     \* this[OPTIONS].maxSockets; 0 when it is not set
    active,         \* this[ACTIVE_SOCKETS]
    waiting,        \* this[WAITING_REQUESTS], the options waiting, oldest first
    st,             \* where each request is: see States
    agentKey,       \* options._agentKey of each request
    returned,       \* requests whose stream createConnection returned to the caller
    aborted,        \* request.abort() has been called on the CONNECT request
    tlsEnd,         \* how the open TLS socket is ending, if it is: "open",
                    \* "errored" or "destroyed"
    sessions,       \* the agent's session cache: key -> ticket, or None
    connects,       \* CONNECT requests issued for each request
    errorEmits,     \* 'error' events the agent emitted on each surrogate stream
    \* history of the run, read by the properties only
    released,       \* times the close handler of each request decremented active
    enqOrder,       \* the requests pushed on the waiting queue, in order
    restartOrder,   \* the requests shifted from it and restarted, in order
    destroyedPending, \* where each request was when the caller destroyed its
                    \* pending stream: "connecting", "failed", or "no"
    lastClose,      \* per key: how the tunnel that closed last closed
    secureSince     \* per key: that close had an error, and a handshake
                    \* to the key completed after it

\* The surrogate stream createConnection returned last, in detail. These
\* variables move under StreamSpec, ConfigSpec, ListenerSpec and ReuseSpec,
\* which follow one stream at a time; Spec, which follows the admission of
\* several requests, leaves them alone.
VARIABLES
    ownSession,     \* options.session as the caller passed it; None if absent
    session,        \* options.session after _augmentOptionsWithSession
    connectResponse, \* the answer of the proxy to the CONNECT, if any
    lastError,      \* the error the agent emitted last on the stream
    proxySocketDestroyed, \* socket.destroy() was called on the CONNECT socket
    timeoutEmits,   \* 'timeout' events emitted on the stream
    closeEmits,     \* 'close' events connectedOnClose emitted on the stream
    writable,       \* stream.writable
    closeSawWritable, \* stream.writable as the listeners of each of those
                    \* 'close' events saw it
    seenEnd,        \* the TLS socket emitted 'end'
    bubbled,        \* the events duplexify raised on the stream on its own
    surrogateTimeout,         \* stream.surrogateTimeout
    surrogateKeepAliveEnable, \* stream.surrogateKeepAliveEnable
    surrogateKeepAliveDelay,  \* stream.surrogateKeepAliveDelay
    surrogateReffed,          \* stream.surrogateReffed
    surrogateConnectedStream, \* stream.surrogateConnectedStream: NoStream
                    \* (null) or TlsSocket
    tls,            \* the settings of the TLS socket: see FreshSocket
    listeners,      \* the 'timeout' listeners of the stream, oldest first
    \* history of the run, read by the properties only
    direct,         \* the settings a socket has that received every call
                    \* made on the stream directly, in the order of the calls
    pendingTimeouts, \* the values of the setTimeout calls made while pending
    transitionTimeouts, \* the values _connectSurrogateStream passed to
                    \* tlsSocket.setTimeout, in order
    \* the HTTP client using the stream
    liveCb,         \* the timeout callback of the request in flight; 0 if none
    served,         \* requests the client has started on the stream
    timedOut        \* the timeout callbacks of its requests that have run,
                    \* in the order in which they ran

\* A call of one of the agent's functions of its options alone, getName or
\* the CONNECT target of _createProxyConnection: its arguments and, once
\* it has run, its result. It moves under CallSpec only.
VARIABLES
    call

agentVars == <<maxSockets, active, waiting, st, agentKey, returned, aborted,
               tlsEnd, sessions, connects, errorEmits, released, enqOrder,
               restartOrder, destroyedPending, lastClose, secureSince>>

eventVars == <<ownSession, session, connectResponse, lastError,
               proxySocketDestroyed, timeoutEmits, closeEmits, writable,
               closeSawWritable, seenEnd, bubbled>>

configVars == <<surrogateTimeout, surrogateKeepAliveEnable,
                surrogateKeepAliveDelay, surrogateReffed, tls, listeners,
                direct, pendingTimeouts, transitionTimeouts,
                surrogateConnectedStream>>

clientVars == <<liveCb, served, timedOut>>

callVars == <<call>>

streamVars == <<eventVars, configVars, clientVars, callVars>>

vars == <<agentVars, streamVars>>

\* "idle":       createConnection not yet called for it
\* "queued":     pushed on WAITING_REQUESTS
\* "connecting": CONNECT issued, no answer yet; the surrogate stream is pending
\* "failed":     the CONNECT callback ran with an error
\* "handshake":  CONNECT answered 200, tls.connect called, surrogate connected
\* "secure":     the TLS handshake completed
\* "closed":     the TLS socket emitted 'close'
States == {"idle", "queued", "connecting", "failed", "handshake", "secure", "closed"}

\* stream.surrogateConnectedStream is non-null: set by _connectSurrogateStream
\* and never reset.
SurrogateConnected(r) == st[r] \in {"handshake", "secure", "closed"}

\* As SurrogatePending, the stream staying pending until the handshake has
\* completed, as in the earlier revision (lines 65-73).
SurrogatePending_UntilSecure(r) == st[r] \in {"connecting", "failed", "handshake"}

\* The surrogate stream exists and surrogateConnectedStream is still null.
SurrogatePending(r) == st[r] \in {"connecting", "failed"}

\* The TLS socket exists and has not emitted 'close'.
TlsOpen(r) == st[r] \in {"handshake", "secure"}

\* ---- JavaScript values, as far as the agent tells them apart

\* undefined: what the fields of a new stream hold (lines 352-354).
JsUndefined == [type |-> "undefined", b |-> FALSE, n |-> 0]
\* A boolean: typeof enable === 'boolean' (line 483).
JsBoolean(b) == [type |-> "boolean", b |-> b, n |-> 0]
\* A number: a timeout or a delay in milliseconds (lines 475, 486).
JsNumber(n) == [type |-> "number", b |-> FALSE, n |-> n]
\* if (v): the test of lines 489 and 513.
Truthy(v) == (v.type = "boolean" /\ v.b) \/ (v.type = "number" /\ v.n /= 0)

\* setTimeout called without a callback: if (callback) fails (line 514).
NoCallback == 0
Callbacks == 1..MaxCb
\* The timeouts the caller passes, 0 among them.
Timeouts == 0..MaxT
\* The keep-alive delays the caller passes, in milliseconds, 0 among them.
Delays == {1000 * d : d \in 0..MaxDelay}

\* options.session supplied by the caller: a session no tunnel of this
\* agent negotiated.
CallerSession == MaxReq + 1

\* The settings of the socket tls.connect returns (line 298): no timeout,
\* no keep-alive, referenced.
FreshSocket == [timeout |-> 0, keepAlive |-> FALSE, keepAliveDelay |-> 0,
                reffed |-> TRUE]

\* stream.surrogateConnectedStream: null, or the TLS socket.
NoStream == "null"
TlsSocket == "tlsSocket"

\* No error emitted yet.
NoError == [kind |-> "none", message |-> "", code |-> 0]
\* No answer to the CONNECT yet.
NoResponse == [statusCode |-> 0, statusMessage |-> ""]

\* No call of getName or _createProxyConnection looked at.
NoCall == [fn |-> "none"]

\* The agent as its constructor leaves it (lines 245-264), no stream
\* created yet.
Constructed ==
    /\ ownSession = None
    /\ session = None
    /\ connectResponse = NoResponse
    /\ lastError = NoError
    /\ proxySocketDestroyed = FALSE
    /\ timeoutEmits = 0
    /\ closeEmits = 0
    /\ writable = TRUE
    /\ closeSawWritable = <<>>
    /\ seenEnd = FALSE
    /\ bubbled = {}
    /\ surrogateTimeout = JsUndefined
    /\ surrogateKeepAliveEnable = JsUndefined
    /\ surrogateKeepAliveDelay = JsUndefined
    /\ surrogateReffed = TRUE
    /\ tls = FreshSocket
    /\ listeners = <<>>
    /\ direct = FreshSocket
    /\ pendingTimeouts = {}
    /\ transitionTimeouts = <<>>
    /\ surrogateConnectedStream = NoStream
    /\ liveCb = NoCallback
    /\ served = 0
    /\ timedOut = <<>>
    /\ maxSockets \in 0..MaxCap
    /\ active = 0
    /\ waiting = <<>>
    /\ st = [r \in Reqs |-> "idle"]
    /\ agentKey = [r \in Reqs |-> NoKey]
    /\ returned = {}
    /\ aborted = [r \in Reqs |-> FALSE]
    /\ tlsEnd = [r \in Reqs |-> "open"]
    /\ sessions = [k \in Keys |-> None]
    /\ connects = [r \in Reqs |-> 0]
    /\ errorEmits = [r \in Reqs |-> 0]
    /\ released = [r \in Reqs |-> 0]
    /\ enqOrder = <<>>
    /\ restartOrder = <<>>
    /\ destroyedPending = [r \in Reqs |-> "no"]
    /\ lastClose = [k \in Keys |-> "none"]
    /\ secureSince = [k \in Keys |-> FALSE]

Init == Constructed /\ call = NoCall

\* ------------------------------------------------- the agent's pieces

\* As Enqueues, comparing with > instead of ===.
Enqueues_PastCap(a) == maxSockets /= 0 /\ a > maxSockets

\* As Enqueues, counting the request being admitted as active already.
Enqueues_Early(a) == maxSockets /= 0 /\ maxSockets = a + 1

\* As Enqueues, whenever a cap is set.
Enqueues_Always(a) == maxSockets /= 0

\* createConnection's test for the cap (lines 270-271), on the value a of
\* ACTIVE_SOCKETS at the call: maxSockets && maxSockets === active.
Enqueues(a) == maxSockets /= 0 /\ maxSockets = a

\* As Shift, with pop() for shift().
Shift_Pop(w) == [item |-> w[Len(w)], rest |-> SubSeq(w, 1, Len(w) - 1)]

\* this[WAITING_REQUESTS].shift() (line 313) on a non-empty queue: the item
\* taken and the queue left.
Shift(w) == [item |-> Head(w), rest |-> Tail(w)]

\* As AfterClose, the decrement forgotten.
AfterClose_NoDecrement(a) == a

\* this[ACTIVE_SOCKETS]-- (line 311).
AfterClose(a) == a - 1

\* As Evicts, the test inverted.
Evicts_Inverted(hadError) == ~hadError

\* As Evicts, never evicting.
Evicts_Never(hadError) == FALSE

\* The close handler's test before evicting (line 309).
Evicts(hadError) == hadError

\* As CachesSession, caching only while the key has no session.
CachesSession_OnlyIfEmpty(k) == k /= NoKey /\ sessions[k] = None

\* The secure callback's test before caching (line 299): options._agentKey.
CachesSession(k) == k /= NoKey

\* https.Agent's _evictSession(key) as called at line 309: drops the entry
\* of the key; a key that has no entry (undefined among them) changes nothing.
_evictSession(s, k) == IF k \in Keys THEN [s EXCEPT ![k] = None] ELSE s

\* https.Agent's _cacheSession(key, session) as called at line 299: the
\* entry of the key becomes the session, whatever it held.
_cacheSession(s, k, t) == [s EXCEPT ![k] = t]

\* https.Agent's _getSession(key) as called at line 335.
_getSession(s, k) == s[k]

\* As surrogateDestroy, with a destroyer that does not abort the request.
surrogateDestroy_NoAbort(ab, r) == ab

\* The destroyer createConnection hands to the surrogate stream (lines
\* 285-287), run by surrogateDestroy (lines 506-510): request.abort().
surrogateDestroy(ab, r) == [ab EXCEPT ![r] = TRUE]

\* As _createProxyConnection, the CONNECT sent once more after the first.
_createProxyConnection_Twice(c, r) == [c EXCEPT ![r] = @ + 2]

\* _createProxyConnection (lines 434-467) as createConnection calls it for
\* an admitted request (line 289): one http(s).request with method CONNECT,
\* ended once (line 464); nothing in it issues a second one. c counts the
\* CONNECT requests issued for each request.
_createProxyConnection(c, r) == [c EXCEPT ![r] = @ + 1]

\* ------------------------------------------------------------ actions

\* The caller calls createConnection(options) with options._agentKey = k
\* (lines 267-328). Requests are numbered in the order of the calls, and
\* keys in the order of their first use: the agent only compares them.
CreateConnection(r, k) ==
    /\ st[r] = "idle"
    /\ \A q \in Reqs : q < r => st[q] /= "idle"
    /\ k \in Keys => \A j \in 1..(k - 1) : \E q \in Reqs : agentKey[q] = j
    /\ agentKey' = [agentKey EXCEPT ![r] = k]
    /\ IF Enqueues(active)
       THEN /\ waiting' = Append(waiting, r)
            /\ enqOrder' = Append(enqOrder, r)
            /\ st' = [st EXCEPT ![r] = "queued"]
            /\ UNCHANGED <<active, returned, connects>>
       ELSE /\ active' = active + 1
            /\ st' = [st EXCEPT ![r] = "connecting"]
            /\ connects' = _createProxyConnection(connects, r)
            /\ returned' = returned \cup {r}
            /\ UNCHANGED <<waiting, enqOrder>>
    /\ UNCHANGED <<maxSockets, aborted, tlsEnd, sessions, errorEmits, released,
                   restartOrder, destroyedPending, lastClose, secureSince>>

\* The proxy answers the CONNECT with status 200 (lines 446-448, 289-302):
\* tls.connect starts the handshake and _connectSurrogateStream attaches the
\* TLS socket to the surrogate stream. An aborted request gets no answer.
ConnectOk(r) ==
    /\ st[r] = "connecting"
    /\ ~aborted[r]
    /\ st' = [st EXCEPT ![r] = "handshake"]
    /\ UNCHANGED <<maxSockets, active, waiting, agentKey, returned, aborted,
                   tlsEnd, sessions, connects, errorEmits, released, enqOrder,
                   restartOrder, destroyedPending, lastClose, secureSince>>

\* The proxy answers the CONNECT with another status (lines 449-459): the
\* callback gets an error, which it emits on the surrogate stream (lines
\* 290-294), and the raw socket is destroyed.
ConnectRefused(r) ==
    /\ st[r] = "connecting"
    /\ ~aborted[r]
    /\ st' = [st EXCEPT ![r] = "failed"]
    /\ errorEmits' = [errorEmits EXCEPT ![r] = @ + 1]
    /\ UNCHANGED <<maxSockets, active, waiting, agentKey, returned, aborted,
                   tlsEnd, sessions, connects, released, enqOrder,
                   restartOrder, destroyedPending, lastClose, secureSince>>

\* The CONNECT request emits 'error' before any answer (line 462): a
\* transport error, or the "socket hang up" that follows request.abort().
\* The callback emits it on the surrogate stream (lines 290-294).
ConnectError(r) ==
    /\ st[r] = "connecting"
    /\ st' = [st EXCEPT ![r] = "failed"]
    /\ errorEmits' = [errorEmits EXCEPT ![r] = @ + 1]
    /\ UNCHANGED <<maxSockets, active, waiting, agentKey, returned, aborted,
                   tlsEnd, sessions, connects, released, enqOrder,
                   restartOrder, destroyedPending, lastClose, secureSince>>

\* The caller calls destroy() on a stream it holds. While the stream is
\* pending this is surrogateDestroy (lines 506-510); once connected it is
\* connectedDestroy (lines 552-556), which destroys the TLS socket.
Destroy(r) ==
    /\ r \in returned
    /\ \/ /\ SurrogatePending(r)
          /\ destroyedPending[r] = "no"
          /\ aborted' = surrogateDestroy(aborted, r)
          /\ destroyedPending' = [destroyedPending EXCEPT ![r] = st[r]]
          /\ UNCHANGED tlsEnd
       \/ /\ TlsOpen(r)
          /\ tlsEnd[r] = "open"
          /\ tlsEnd' = [tlsEnd EXCEPT ![r] = "destroyed"]
          /\ UNCHANGED <<aborted, destroyedPending>>
    /\ UNCHANGED <<maxSockets, active, waiting, st, agentKey, returned,
                   sessions, connects, errorEmits, released, enqOrder,
                   restartOrder, lastClose, secureSince>>

\* The TLS handshake completes: the callback of tls.connect (lines 298-300).
TlsSecure(r) ==
    /\ st[r] = "handshake"
    /\ tlsEnd[r] = "open"
    /\ st' = [st EXCEPT ![r] = "secure"]
    /\ sessions' = IF CachesSession(agentKey[r])
                   THEN _cacheSession(sessions, agentKey[r], Ticket(r))
                   ELSE sessions
    /\ IF agentKey[r] /= NoKey
       THEN secureSince' = [secureSince EXCEPT
                              ![agentKey[r]] = lastClose[agentKey[r]] = "err"]
       ELSE UNCHANGED secureSince
    /\ UNCHANGED <<maxSockets, active, waiting, agentKey, returned, aborted,
                   tlsEnd, connects, errorEmits, released, enqOrder,
                   restartOrder, destroyedPending, lastClose>>

\* The TLS socket emits 'error', during the handshake or after it. The
\* handler of lines 304-306 emits nothing, the surrogate being connected
\* since line 302; connectedOnError (lines 566-568) emits the error.
TlsError(r) ==
    /\ TlsOpen(r)
    /\ tlsEnd[r] = "open"
    /\ tlsEnd' = [tlsEnd EXCEPT ![r] = "errored"]
    /\ errorEmits' = [errorEmits EXCEPT ![r] = @ + 1]
    /\ UNCHANGED <<maxSockets, active, waiting, st, agentKey, returned,
                   aborted, sessions, connects, released, enqOrder,
                   restartOrder, destroyedPending, lastClose, secureSince>>

\* The TLS socket emits 'close' (lines 308-320); hadError is true when the
\* socket was destroyed by an error. The handler evicts, decrements, and
\* restarts the oldest waiting request by calling createConnection, whose
\* return value it drops.
TlsClose(r) ==
    /\ TlsOpen(r)
    /\ LET hadError == tlsEnd[r] = "errored"
           k == agentKey[r]
           a == AfterClose(active)
       IN  /\ sessions' = IF Evicts(hadError) THEN _evictSession(sessions, k)
                          ELSE sessions
           /\ released' = [released EXCEPT ![r] = @ + 1]
           /\ IF k /= NoKey
              THEN /\ lastClose' = [lastClose EXCEPT
                                      ![k] = IF hadError THEN "err" ELSE "ok"]
                   /\ secureSince' = [secureSince EXCEPT ![k] = FALSE]
              ELSE UNCHANGED <<lastClose, secureSince>>
           /\ IF waiting = <<>>
              THEN /\ active' = a
                   /\ st' = [st EXCEPT ![r] = "closed"]
                   /\ UNCHANGED <<waiting, connects, enqOrder, restartOrder>>
              ELSE LET q == Shift(waiting).item
                       w == Shift(waiting).rest
                   IN  /\ restartOrder' = Append(restartOrder, q)
                       /\ IF Enqueues(a)
                          THEN /\ waiting' = Append(w, q)
                               /\ enqOrder' = Append(enqOrder, q)
                               /\ active' = a
                               /\ st' = [st EXCEPT ![r] = "closed"]
                               /\ UNCHANGED connects
                          ELSE /\ waiting' = w
                               /\ active' = a + 1
                               /\ st' = [st EXCEPT ![r] = "closed",
                                                   ![q] = "connecting"]
                               /\ connects' = _createProxyConnection(connects, q)
                               /\ UNCHANGED enqOrder
    /\ tlsEnd' = [tlsEnd EXCEPT ![r] = "open"]
    /\ UNCHANGED <<maxSockets, agentKey, returned, aborted, errorEmits,
                   destroyedPending>>

\* The agent admitting several requests at a time; what happens on each
\* stream is left to the specifications further down.
Next ==
    \E r \in Reqs :
        \/ \E k \in Keys \cup {NoKey} :
                CreateConnection(r, k) /\ UNCHANGED streamVars
        \/ ConnectOk(r) /\ UNCHANGED streamVars
        \/ ConnectRefused(r) /\ UNCHANGED streamVars
        \/ ConnectError(r) /\ UNCHANGED streamVars
        \/ Destroy(r) /\ UNCHANGED streamVars
        \/ TlsSecure(r) /\ UNCHANGED streamVars
        \/ TlsError(r) /\ UNCHANGED streamVars
        \/ TlsClose(r) /\ UNCHANGED streamVars

Spec == Init /\ [][Next]_vars

\* ----------------------------------------- one stream at a time: pieces

\* As _augmentOptionsWithSession, without the test for a session of the
\* caller's.
_augmentOptionsWithSession_Overrides(k, own, s) ==
    IF k = NoKey THEN own
    ELSE IF _getSession(s, k) = None THEN own
    ELSE _getSession(s, k)

\* _augmentOptionsWithSession (lines 330-341) on options with _agentKey = k
\* and session = own, the cache being s: options.session as it leaves.
_augmentOptionsWithSession(k, own, s) ==
    IF k = NoKey THEN own
    ELSE IF own /= None THEN own
    ELSE IF _getSession(s, k) = None THEN own
    ELSE _getSession(s, k)

\* As TunnelEstablished, taking every answer for a tunnel, which is what the
\* earlier revision did (lines 216-218).
TunnelEstablished_AnyStatus(res) == TRUE

\* The test of the 'connect' handler (line 447): res.statusCode === 200.
TunnelEstablished(res) == res.statusCode = 200

\* The error the 'connect' handler builds from another answer (lines
\* 450-451): new Error(res.statusMessage) with code = res.statusCode.
StatusError(res) ==
    [kind |-> "status", message |-> res.statusMessage, code |-> res.statusCode]

\* The error the CONNECT request emits itself (line 462): it carries no
\* status.
RequestError == [kind |-> "request", message |-> "socket hang up", code |-> 0]

\* The error the TLS socket emits (line 430).
TlsSocketError == [kind |-> "tls", message |-> "tls error", code |-> 0]

\* The answers the proxy gives to a CONNECT: the two of the mock proxy
\* (src/unnamed/part_000 lines 91 and 102) and a 2xx that is not 200.
ProxyResponses ==
    { [statusCode |-> 200, statusMessage |-> "Connection Established"],
      [statusCode |-> 204, statusMessage |-> "No Content"],
      [statusCode |-> 500, statusMessage |-> "Connection Error"] }

\* As requestOnTimeout, aborting the CONNECT request as well.
requestOnTimeout_Aborts(ab, r) == [emits |-> 1, aborted |-> surrogateDestroy(ab, r)]

\* The 'timeout' handler of the CONNECT request (lines 323-325): one
\* stream.emit('timeout'), and the request left as it is.
requestOnTimeout(ab, r) == [emits |-> 1, aborted |-> ab]

\* As connectedOnClose, emitting before clearing writable.
connectedOnClose_EmitFirst(w) == [writable |-> FALSE, seen |-> w, emits |-> 1]

\* As connectedOnClose, emitting nothing.
connectedOnClose_Silent(w) == [writable |-> FALSE, seen |-> FALSE, emits |-> 0]

\* connectedOnClose (lines 570-573), stream.writable being w: writable is
\* cleared, then 'close' is emitted once, its listeners seeing the cleared
\* flag.
connectedOnClose(w) == [writable |-> FALSE, seen |-> FALSE, emits |-> 1]

\* net.Socket's setTimeout(msecs) as called at lines 392 and 527.
socketSetTimeout(s, t) == [s EXCEPT !.timeout = t]

\* net.Socket's setKeepAlive(enable, initialDelay) as called at lines 396,
\* 399 and 535: the first argument is taken as a boolean, the second as
\* milliseconds, undefined counting as 0, and is handed on in whole seconds.
\* A delay means nothing on a socket whose keep-alive is off.
socketSetKeepAlive(s, enable, initialDelay) ==
    LET on == Truthy(enable)
        secs == IF initialDelay.type = "number" THEN initialDelay.n \div 1000
                ELSE 0
    IN  [s EXCEPT !.keepAlive = on,
                  !.keepAliveDelay = IF on THEN secs ELSE 0]

\* net.Socket's ref() and unref() as called at lines 402, 541 and 547.
socketRef(s) == [s EXCEPT !.reffed = TRUE]
socketUnref(s) == [s EXCEPT !.reffed = FALSE]

\* As BufferedTimeout, testing the recorded value for truth.
BufferedTimeout_IfTruthy(v) == IF Truthy(v) THEN <<v.n>> ELSE <<>>

\* The values _connectSurrogateStream passes to tlsSocket.setTimeout (lines
\* 391-393), the recorded timeout being v: the one recorded, if any.
BufferedTimeout(v) == IF v.type /= "undefined" THEN <<v.n>> ELSE <<>>

\* As ConnectedStream, the assignment left out.
ConnectedStream_NotSet(h) == h

\* stream.surrogateConnectedStream after _connectSurrogateStream (line 378),
\* h being its value before: the TLS socket. No other line assigns it,
\* connectedOnClose (lines 570-573) and connectedDestroy (lines 552-556)
\* among them.
ConnectedStream(h) == TlsSocket

\* The 'buffered' side effects _connectSurrogateStream applies to the new
\* TLS socket (lines 391-402): the timeout, then the keep-alive enable and
\* the keep-alive delay, each as the first argument of a setKeepAlive call
\* of its own, then unref.
ApplyBuffered(s) ==
    LET s1 == IF BufferedTimeout(surrogateTimeout) /= <<>>
              THEN socketSetTimeout(s, BufferedTimeout(surrogateTimeout)[1])
              ELSE s
        s2 == IF surrogateKeepAliveEnable.type /= "undefined"
              THEN socketSetKeepAlive(s1, surrogateKeepAliveEnable, JsUndefined)
              ELSE s1
        s3 == IF surrogateKeepAliveDelay.type /= "undefined"
              THEN socketSetKeepAlive(s2, surrogateKeepAliveDelay, JsUndefined)
              ELSE s2
    IN  IF ~surrogateReffed THEN socketUnref(s3) ELSE s3

\* The list l without its last element equal to c, which is what
\* EventEmitter's removeListener takes away (line 519).
RECURSIVE RemoveLast(_, _)
RemoveLast(l, c) ==
    IF l = <<>> THEN <<>>
    ELSE IF l[Len(l)] = c THEN SubSeq(l, 1, Len(l) - 1)
    ELSE Append(RemoveLast(SubSeq(l, 1, Len(l) - 1), c), l[Len(l)])

\* As setTimeoutListener, registering whatever the timeout: connectedSetTimeout
\* of the earlier revision (lines 170-176).
setTimeoutListener_AlwaysOnce(l, t, cb) ==
    IF cb /= NoCallback THEN Append(l, cb) ELSE l

\* As setTimeoutListener, a zero timeout with a callback removing every
\* listener.
setTimeoutListener_RemovesAll(l, t, cb) ==
    IF t /= 0 THEN (IF cb /= NoCallback THEN Append(l, cb) ELSE l)
    ELSE <<>>

\* As setTimeoutListener, a zero timeout with a callback leaving the
\* listeners as they are.
setTimeoutListener_KeepsOnClear(l, t, cb) ==
    IF t /= 0 THEN (IF cb /= NoCallback THEN Append(l, cb) ELSE l)
    ELSE IF cb /= NoCallback THEN l
    ELSE <<>>

\* setTimeoutListener (lines 512-524) on the list l of the 'timeout'
\* listeners, all registered with once().
setTimeoutListener(l, t, cb) ==
    IF t /= 0 THEN (IF cb /= NoCallback THEN Append(l, cb) ELSE l)
    ELSE IF cb /= NoCallback THEN RemoveLast(l, cb)
    ELSE <<>>

\* The stream variables describe the stream of request r: the one
\* createConnection returned last.
StreamOf(r) == r \in returned /\ \A q \in returned : q <= r

\* The stream of r takes calls and events: it is neither failed nor closed.
StreamLive(r) == StreamOf(r) /\ st[r] \in {"connecting", "handshake", "secure"}

\* ----------------------------------------- one stream at a time: actions

\* _createSurrogateStream (lines 343-375): the stream variables now
\* describe the new stream, on which nothing has happened.
_createSurrogateStream ==
    /\ connectResponse' = NoResponse
    /\ lastError' = NoError
    /\ proxySocketDestroyed' = FALSE
    /\ timeoutEmits' = 0
    /\ closeEmits' = 0
    /\ writable' = TRUE
    /\ closeSawWritable' = <<>>
    /\ seenEnd' = FALSE
    /\ bubbled' = {}
    /\ surrogateTimeout' = JsUndefined
    /\ surrogateKeepAliveEnable' = JsUndefined
    /\ surrogateKeepAliveDelay' = JsUndefined
    /\ surrogateReffed' = TRUE
    /\ tls' = FreshSocket
    /\ listeners' = <<>>
    /\ direct' = FreshSocket
    /\ pendingTimeouts' = {}
    /\ transitionTimeouts' = <<>>
    /\ surrogateConnectedStream' = NoStream

\* The caller calls createConnection(options) with options._agentKey = k
\* and options.session = own (lines 267-328), once the tunnels of its
\* earlier calls are over. A call that is admitted augments the options and
\* creates the stream; a call that is queued returns nothing.
StreamCreateConnection(r, k, own) ==
    /\ r <= MaxTunnels
    /\ \A q \in Reqs : q < r => st[q] \in {"failed", "closed"}
    /\ CreateConnection(r, k)
    /\ IF Enqueues(active)
       THEN UNCHANGED <<eventVars, configVars>>
       ELSE /\ ownSession' = own
            /\ session' = _augmentOptionsWithSession(k, own, sessions)
            /\ _createSurrogateStream
    /\ UNCHANGED <<clientVars, callVars>>

\* The proxy answers the CONNECT with res (lines 446-460). On 200 the
\* callback starts the handshake and _connectSurrogateStream applies what
\* the stream buffered (lines 296-302, 377-432); on another status the
\* callback emits the error and the CONNECT socket is destroyed.
StreamConnectResponse(r, res) ==
    /\ StreamOf(r)
    /\ connectResponse' = res
    /\ IF TunnelEstablished(res)
       THEN /\ ConnectOk(r)
            /\ tls' = ApplyBuffered(FreshSocket)
            /\ transitionTimeouts' = BufferedTimeout(surrogateTimeout)
            /\ surrogateConnectedStream' =
                   ConnectedStream(surrogateConnectedStream)
            /\ UNCHANGED <<lastError, proxySocketDestroyed>>
       ELSE /\ ConnectRefused(r)
            /\ lastError' = StatusError(res)
            /\ proxySocketDestroyed' = TRUE
            /\ UNCHANGED <<tls, transitionTimeouts, surrogateConnectedStream>>
    /\ UNCHANGED <<ownSession, session, timeoutEmits, closeEmits, writable,
                   closeSawWritable, seenEnd, bubbled>>
    /\ UNCHANGED <<surrogateTimeout, surrogateKeepAliveEnable,
                   surrogateKeepAliveDelay, surrogateReffed, listeners,
                   direct, pendingTimeouts>>
    /\ UNCHANGED <<clientVars, callVars>>

\* The CONNECT request emits 'error' (line 462, lines 290-294).
StreamConnectError(r) ==
    /\ StreamOf(r)
    /\ ConnectError(r)
    /\ lastError' = RequestError
    /\ UNCHANGED <<ownSession, session, connectResponse, proxySocketDestroyed,
                   timeoutEmits, closeEmits, writable, closeSawWritable,
                   seenEnd, bubbled>>
    /\ UNCHANGED <<configVars, clientVars, callVars>>

\* The CONNECT request emits 'timeout' while it waits for its answer (lines
\* 323-325): the handler emits 'timeout' on the stream, whose listeners,
\* registered with once(), run and are gone.
RequestTimeoutEvent(r) ==
    /\ StreamOf(r)
    /\ st[r] = "connecting"
    /\ ~aborted[r]
    /\ timeoutEmits < MaxTimeouts
    /\ timeoutEmits' = timeoutEmits + requestOnTimeout(aborted, r).emits
    /\ aborted' = requestOnTimeout(aborted, r).aborted
    /\ listeners' = <<>>
    /\ UNCHANGED <<maxSockets, active, waiting, st, agentKey, returned, tlsEnd,
                   sessions, connects, errorEmits, released, enqOrder,
                   restartOrder, destroyedPending, lastClose, secureSince>>
    /\ UNCHANGED <<ownSession, session, connectResponse, lastError,
                   proxySocketDestroyed, closeEmits, writable,
                   closeSawWritable, seenEnd, bubbled>>
    /\ UNCHANGED <<surrogateTimeout, surrogateKeepAliveEnable,
                   surrogateKeepAliveDelay, surrogateReffed, tls, direct,
                   pendingTimeouts, transitionTimeouts,
                   surrogateConnectedStream>>

RequestTimeout(r) ==
    RequestTimeoutEvent(r) /\ UNCHANGED <<clientVars, callVars>>

\* The same with the HTTP client of ReuseSpec on the stream: the listeners
\* that run are the timeout callbacks of its requests.
ClientRequestTimeout(r) ==
    /\ RequestTimeoutEvent(r)
    /\ timedOut' = timedOut \o listeners
    /\ UNCHANGED <<liveCb, served, callVars>>

\* The TLS socket emits 'timeout', a timeout being set on it:
\* connectedOnTimeout (lines 558-560) emits it on the stream.
TlsTimeoutEvent(r) ==
    /\ StreamOf(r)
    /\ TlsOpen(r)
    /\ tlsEnd[r] = "open"
    /\ tls.timeout /= 0
    /\ timeoutEmits < MaxTimeouts
    /\ timeoutEmits' = timeoutEmits + 1
    /\ listeners' = <<>>
    /\ UNCHANGED agentVars
    /\ UNCHANGED <<ownSession, session, connectResponse, lastError,
                   proxySocketDestroyed, closeEmits, writable,
                   closeSawWritable, seenEnd, bubbled>>
    /\ UNCHANGED <<surrogateTimeout, surrogateKeepAliveEnable,
                   surrogateKeepAliveDelay, surrogateReffed, tls, direct,
                   pendingTimeouts, transitionTimeouts,
                   surrogateConnectedStream>>

TlsTimeout(r) ==
    TlsTimeoutEvent(r) /\ UNCHANGED <<clientVars, callVars>>

\* The same with the HTTP client of ReuseSpec on the stream.
ClientTlsTimeout(r) ==
    /\ TlsTimeoutEvent(r)
    /\ timedOut' = timedOut \o listeners
    /\ UNCHANGED <<liveCb, served, callVars>>

\* The caller destroys the stream (lines 506-510, 552-556).
StreamDestroy(r) ==
    /\ StreamOf(r)
    /\ Destroy(r)
    /\ UNCHANGED streamVars

\* The TLS handshake completes (lines 298-300).
StreamTlsSecure(r) ==
    /\ StreamOf(r)
    /\ TlsSecure(r)
    /\ UNCHANGED streamVars

\* The TLS socket emits 'error' (lines 304-306, 430, 566-568).
StreamTlsError(r) ==
    /\ StreamOf(r)
    /\ TlsError(r)
    /\ lastError' = TlsSocketError
    /\ UNCHANGED <<ownSession, session, connectResponse, proxySocketDestroyed,
                   timeoutEmits, closeEmits, writable, closeSawWritable,
                   seenEnd, bubbled>>
    /\ UNCHANGED <<configVars, clientVars, callVars>>

\* The TLS socket emits 'end': the peer has sent its last byte. The agent
\* listens to nothing here; surrogateSeenEnd (line 383) is never written
\* again.
TlsEndOfData(r) ==
    /\ StreamOf(r)
    /\ TlsOpen(r)
    /\ ~seenEnd
    /\ seenEnd' = TRUE
    /\ UNCHANGED agentVars
    /\ UNCHANGED <<ownSession, session, connectResponse, lastError,
                   proxySocketDestroyed, timeoutEmits, closeEmits, writable,
                   closeSawWritable, bubbled>>
    /\ UNCHANGED <<configVars, clientVars, callVars>>

\* The TLS socket emits 'close': connectedOnClose (line 431, lines 570-573)
\* and the close handler of createConnection (lines 308-320) run.
StreamTlsClose(r) ==
    /\ StreamOf(r)
    /\ TlsClose(r)
    /\ writable' = connectedOnClose(writable).writable
    /\ closeEmits' = closeEmits + connectedOnClose(writable).emits
    /\ closeSawWritable' =
           IF connectedOnClose(writable).emits = 0 THEN closeSawWritable
           ELSE Append(closeSawWritable, connectedOnClose(writable).seen)
    /\ UNCHANGED <<ownSession, session, connectResponse, lastError,
                   proxySocketDestroyed, timeoutEmits, seenEnd, bubbled>>
    /\ UNCHANGED <<configVars, clientVars, callVars>>

\* duplexify raises events on the stream on its own: "If the readable or
\* writable streams emits an error or close it will destroy both streams
\* and bubble up the event", which the agent found it does not always do
\* (lines 379-380, 420-426). When it does, it does once: an error of the
\* TLS socket comes up as 'error' and 'close', its closing as 'close'.
Bubble(r) ==
    /\ StreamOf(r)
    /\ SurrogateConnected(r)
    /\ bubbled = {}
    /\ \/ /\ tlsEnd[r] = "errored" \/ (st[r] = "closed" /\ errorEmits[r] > 0)
          /\ bubbled' = {"error", "close"}
       \/ /\ st[r] = "closed"
          /\ errorEmits[r] = 0
          /\ bubbled' = {"close"}
    /\ UNCHANGED agentVars
    /\ UNCHANGED <<ownSession, session, connectResponse, lastError,
                   proxySocketDestroyed, timeoutEmits, closeEmits, writable,
                   closeSawWritable, seenEnd>>
    /\ UNCHANGED <<configVars, clientVars, callVars>>

\* The caller calls stream.setTimeout(t, cb); cb is NoCallback when it
\* passes none. A pending stream runs surrogateSetTimeout (lines 474-480),
\* a connected one connectedSetTimeout (lines 526-532).
SetTimeoutCall(r, t, cb) ==
    /\ StreamLive(r)
    /\ IF SurrogatePending(r)
       THEN /\ surrogateTimeout' = JsNumber(t)
            /\ pendingTimeouts' = pendingTimeouts \cup {t}
            /\ UNCHANGED tls
       ELSE /\ tls' = socketSetTimeout(tls, t)
            /\ UNCHANGED <<surrogateTimeout, pendingTimeouts>>
    /\ listeners' = setTimeoutListener(listeners, t, cb)
    /\ Len(listeners') <= MaxListeners
    /\ direct' = socketSetTimeout(direct, t)
    /\ UNCHANGED <<surrogateKeepAliveEnable, surrogateKeepAliveDelay,
                   surrogateReffed, transitionTimeouts,
                   surrogateConnectedStream>>
    /\ UNCHANGED <<agentVars, eventVars>>

SetTimeout(r, t, cb) ==
    SetTimeoutCall(r, t, cb) /\ UNCHANGED <<clientVars, callVars>>

\* The ways the caller calls setKeepAlive: (enable), (enable, initialDelay)
\* and (initialDelay), as the pairs of the first two arguments.
KeepAliveCalls ==
    { <<JsBoolean(b), JsUndefined>> : b \in BOOLEAN }
    \cup { <<JsBoolean(b), JsNumber(d)>> : b \in BOOLEAN, d \in Delays }
    \cup { <<JsNumber(d), JsUndefined>> : d \in Delays }

\* The caller calls stream.setKeepAlive(enable, initialDelay). A pending
\* stream runs surrogateSetKeepAlive (lines 482-492), a connected one
\* connectedSetKeepAlive (lines 534-538).
SetKeepAlive(r, enable, initialDelay) ==
    /\ StreamLive(r)
    /\ IF SurrogatePending(r)
       THEN LET delay == IF enable.type = "boolean" THEN initialDelay
                         ELSE enable
            IN  /\ surrogateKeepAliveEnable' =
                       IF enable.type = "boolean" THEN enable
                       ELSE surrogateKeepAliveEnable
                /\ surrogateKeepAliveDelay' =
                       IF Truthy(delay) THEN delay
                       ELSE surrogateKeepAliveDelay
                /\ UNCHANGED tls
       ELSE /\ tls' = socketSetKeepAlive(tls, enable, initialDelay)
            /\ UNCHANGED <<surrogateKeepAliveEnable, surrogateKeepAliveDelay>>
    /\ direct' = socketSetKeepAlive(direct, enable, initialDelay)
    /\ UNCHANGED <<surrogateTimeout, surrogateReffed, listeners,
                   pendingTimeouts, transitionTimeouts,
                   surrogateConnectedStream>>
    /\ UNCHANGED <<agentVars, eventVars, clientVars, callVars>>

\* The caller calls stream.ref(): surrogateRef (lines 494-498) or
\* connectedRef (lines 540-544).
Ref(r) ==
    /\ StreamLive(r)
    /\ IF SurrogatePending(r)
       THEN surrogateReffed' = TRUE /\ UNCHANGED tls
       ELSE tls' = socketRef(tls) /\ UNCHANGED surrogateReffed
    /\ direct' = socketRef(direct)
    /\ UNCHANGED <<surrogateTimeout, surrogateKeepAliveEnable,
                   surrogateKeepAliveDelay, listeners, pendingTimeouts,
                   transitionTimeouts,
                   surrogateConnectedStream>>
    /\ UNCHANGED <<agentVars, eventVars, clientVars, callVars>>

\* The caller calls stream.unref(): surrogateUnref (lines 500-504) or
\* connectedUnref (lines 546-550).
Unref(r) ==
    /\ StreamLive(r)
    /\ IF SurrogatePending(r)
       THEN surrogateReffed' = FALSE /\ UNCHANGED tls
       ELSE tls' = socketUnref(tls) /\ UNCHANGED surrogateReffed
    /\ direct' = socketUnref(direct)
    /\ UNCHANGED <<surrogateTimeout, surrogateKeepAliveEnable,
                   surrogateKeepAliveDelay, listeners, pendingTimeouts,
                   transitionTimeouts,
                   surrogateConnectedStream>>
    /\ UNCHANGED <<agentVars, eventVars, clientVars, callVars>>

\* The HTTP client starts a request on the stream and sets its timeout:
\* setTimeout(t, cb) with t > 0 and a callback of the request's own
\* (src/test/test.js lines 398-451).
RequestStart(r, t) ==
    /\ liveCb = NoCallback
    /\ served < MaxCb
    /\ t /= 0
    /\ SetTimeoutCall(r, t, served + 1)
    /\ liveCb' = served + 1
    /\ served' = served + 1
    /\ UNCHANGED <<timedOut, callVars>>

\* The request is over and the client clears its timeout: setTimeout(0, cb)
\* with the callback it registered.
RequestEnd(r) ==
    /\ liveCb /= NoCallback
    /\ st[r] = "secure"
    /\ SetTimeoutCall(r, 0, liveCb)
    /\ liveCb' = NoCallback
    /\ UNCHANGED <<served, timedOut, callVars>>

\* ------------------------------------------- one stream at a time: specs

\* Tunnels one after the other, with all that happens on their streams but
\* the caller's settings.
StreamNext ==
    \E r \in Reqs :
        \/ \E k \in Keys \cup {NoKey}, own \in {None, CallerSession} :
                StreamCreateConnection(r, k, own)
        \/ \E res \in ProxyResponses : StreamConnectResponse(r, res)
        \/ StreamConnectError(r)
        \/ RequestTimeout(r)
        \/ StreamDestroy(r)
        \/ StreamTlsSecure(r)
        \/ StreamTlsError(r)
        \/ TlsEndOfData(r)
        \/ StreamTlsClose(r)
        \/ Bubble(r)

StreamSpec == Init /\ [][StreamNext]_vars

\* The answers of a proxy that accepts the CONNECT.
Accepting == {res \in ProxyResponses : TunnelEstablished(res)}

\* One stream, through a proxy that accepts, the caller setting its timeout,
\* keep-alive and reference before and after the stream is connected.
ConfigNext ==
    \E r \in Reqs :
        \/ StreamCreateConnection(r, NoKey, None)
        \/ \E res \in Accepting : StreamConnectResponse(r, res)
        \/ \E t \in Timeouts : SetTimeout(r, t, NoCallback)
        \/ \E c \in KeepAliveCalls : SetKeepAlive(r, c[1], c[2])
        \/ Ref(r)
        \/ Unref(r)

ConfigSpec == Init /\ [][ConfigNext]_vars

\* One stream, through a proxy that accepts, the caller setting and clearing
\* timeouts with callbacks, and the timeouts firing.
ListenerNext ==
    \E r \in Reqs :
        \/ StreamCreateConnection(r, NoKey, None)
        \/ \E res \in Accepting : StreamConnectResponse(r, res)
        \/ \E t \in Timeouts, cb \in Callbacks \cup {NoCallback} :
                SetTimeout(r, t, cb)
        \/ RequestTimeout(r)
        \/ TlsTimeout(r)

ListenerSpec == Init /\ [][ListenerNext]_vars

\* One stream, through a proxy that accepts, reused by the HTTP client for
\* one request after the other.
ReuseNext ==
    \E r \in Reqs :
        \/ StreamCreateConnection(r, NoKey, None)
        \/ \E res \in Accepting : StreamConnectResponse(r, res)
        \/ StreamTlsSecure(r)
        \/ \E t \in Timeouts : RequestStart(r, t)
        \/ RequestEnd(r)
        \/ ClientRequestTimeout(r)
        \/ ClientTlsTimeout(r)

ReuseSpec == Init /\ [][ReuseNext]_vars

\* ------------------------------- pool names and CONNECT targets

\* Strings are sequences of characters. The characters of the names below:
\* a letter, a digit, and the ':' that Node's getName and the agent join
\* with.
Colon == ":"
Letter == "a"
Digit == "1"

\* The strings over a set of characters, of n characters at most.
RECURSIVE StringsUpTo(_, _)
StringsUpTo(cs, n) ==
    IF n = 0 THEN {<<>>}
    ELSE LET shorter == StringsUpTo(cs, n - 1)
         IN  shorter \cup {Append(s, c) : s \in shorter, c \in cs}

\* A JavaScript string, and the undefined of an option that is absent.
JsString(s) == [type |-> "string", s |-> s]
NoString == [type |-> "undefined", s |-> <<>>]

\* a || b for string options: a unless it is undefined or empty.
JsOr(a, b) == IF a.type = "string" /\ a.s /= <<>> THEN a ELSE b

\* The decimal digits, and a port number as '+' turns it into a string.
Digits == <<"0", "1", "2", "3", "4", "5", "6", "7", "8", "9">>
RECURSIVE NumberToString(_)
NumberToString(n) ==
    IF n < 10 THEN <<Digits[n + 1]>>
    ELSE Append(NumberToString(n \div 10), Digits[(n % 10) + 1])

\* The pool keys http.Agent's and https.Agent's getName build: host, port
\* and the further options (localAddress, family, and for https the TLS
\* options such as the cipher list) joined with ':'. The further options
\* are the tail: absent ones leave it empty, and lists, IPv6 addresses and
\* the caller's own strings put ':' inside it.
AgentName(host, port, tail) == host \o <<Colon>> \o port \o <<Colon>> \o tail

\* The keys of the origins: one host and port, the TLS options varying.
OriginKeys ==
    {AgentName(<<Letter>>, <<Digit>>, t) :
        t \in StringsUpTo({Letter, Colon}, MaxKeyLen)}

\* The keys of the proxies: a host with a name or a numeric one, one port,
\* the local address and family varying.
ProxyKeys ==
    {AgentName(h, <<Digit>>, t) :
        h \in {<<Letter>>, <<Digit>>}, t \in StringsUpTo({Digit, Colon}, MaxKeyLen)}

\* As getName, the proxy's key alone.
getName_ProxyOnly(originKey, proxyKey) == proxyKey

\* getName (lines 469-472): HttpsAgent.prototype.getName.call(this,
\* options) + ':' + this[OPTIONS].agent.getName(this[OPTIONS]), on the two
\* keys those calls return.
getName(originKey, proxyKey) == originKey \o <<Colon>> \o proxyKey

\* As ConnectTarget, from host alone, as the earlier revision did
\* (line 206).
ConnectTarget_HostOnly(o) == o.host.s \o <<Colon>> \o NumberToString(o.port)

\* The path of the CONNECT request (line 436): (throughOptions.hostname ||
\* throughOptions.host) + ':' + throughOptions.port.
ConnectTarget(o) ==
    JsOr(o.hostname, o.host).s \o <<Colon>> \o NumberToString(o.port)

\* Host names, ports, and the options of a request: host is the name, or
\* the name with a port as a URL carries it; hostname is the name, empty,
\* or absent.
HostNames == StringsUpTo({Letter}, MaxKeyLen) \ {<<>>}
Ports == 1..MaxPort
HostValues ==
    HostNames
    \cup {n \o <<Colon>> \o NumberToString(p) : n \in HostNames, p \in Ports}
ThroughOptions ==
    [hostname : {NoString, JsString(<<>>)} \cup {JsString(n) : n \in HostNames},
     host : {JsString(h) : h \in HostValues},
     port : Ports]

\* The calls looked at: two requests asking for their pool names, each of
\* an agent of its own (the same one when the proxy keys are equal); or
\* one _createProxyConnection. The names do not depend on the cap: the
\* agent is one without a cap.
CallInit ==
    /\ Constructed
    /\ maxSockets = 0
    /\ \/ \E o1 \in OriginKeys, o2 \in OriginKeys,
             p1 \in ProxyKeys, p2 \in ProxyKeys :
               call = [fn |-> "getName", origin |-> <<o1, o2>>,
                       proxy |-> <<p1, p2>>, done |-> FALSE, name |-> <<>>]
       \/ \E o \in ThroughOptions :
               call = [fn |-> "connect", options |-> o, done |-> FALSE,
                       path |-> <<>>]

\* Node asks the agents of the two requests for their pool names.
GetName ==
    /\ call.fn = "getName"
    /\ ~call.done
    /\ call' = [call EXCEPT
                    !.done = TRUE,
                    !.name = <<getName(call.origin[1], call.proxy[1]),
                               getName(call.origin[2], call.proxy[2])>>]
    /\ UNCHANGED <<agentVars, eventVars, configVars, clientVars>>

\* _createProxyConnection builds the options of the CONNECT request
\* (lines 434-436).
CreateProxyConnectionPath ==
    /\ call.fn = "connect"
    /\ ~call.done
    /\ call' = [call EXCEPT !.done = TRUE, !.path = ConnectTarget(call.options)]
    /\ UNCHANGED <<agentVars, eventVars, configVars, clientVars>>

CallNext == GetName \/ CreateProxyConnectionPath

CallSpec == CallInit /\ [][CallNext]_vars

\* One stream, through a proxy that accepts, the caller setting its timeout,
\* keep-alive and reference while the CONNECT is pending, while the TLS
\* handshake runs and after it, and the handshake completing or failing.
HandshakeNext ==
    \E r \in Reqs :
        \/ StreamCreateConnection(r, NoKey, None)
        \/ \E res \in Accepting : StreamConnectResponse(r, res)
        \/ \E t \in Timeouts : SetTimeout(r, t, NoCallback)
        \/ \E c \in KeepAliveCalls : SetKeepAlive(r, c[1], c[2])
        \/ Ref(r)
        \/ Unref(r)
        \/ StreamTlsSecure(r)
        \/ StreamTlsError(r)

HandshakeSpec == Init /\ [][HandshakeNext]_vars

\* --------------------------------------------------------- properties

\* C1: whatever the interleaving of createConnection calls, CONNECT
\* outcomes and TLS close events, the active-tunnel counter stays between
\* 0 and maxSockets, when maxSockets is set (a positive integer).
C1_ActiveWithinMaxSockets ==
    maxSockets /= 0 => (0 <= active /\ active <= maxSockets)

\* The cap is reached after a tunnel has closed and a CONNECT has failed.
C1_Witness ==
    /\ maxSockets /= 0
    /\ active = maxSockets
    /\ \E r \in Reqs : st[r] = "closed"
    /\ \E r \in Reqs : st[r] = "failed"

\* C2: a createConnection call of the caller admits the request (active
\* grows by exactly one, a pending surrogate stream is returned and its
\* CONNECT issued) exactly when maxSockets is unset or active < maxSockets;
\* otherwise it appends the request to the tail of the waiting queue,
\* returns nothing, leaves active alone and issues no CONNECT.
C2_AdmitOrEnqueue ==
    [][\A r \in Reqs :
          (st[r] = "idle" /\ st'[r] /= "idle") =>
              IF maxSockets = 0 \/ active < maxSockets
              THEN /\ active' = active + 1
                   /\ SurrogatePending(r)'
                   /\ st'[r] = "connecting"
                   /\ r \in returned'
                   /\ connects'[r] = 1
                   /\ waiting' = waiting
              ELSE /\ waiting' = Append(waiting, r)
                   /\ active' = active
                   /\ st'[r] = "queued"
                   /\ r \notin returned'
                   /\ connects' = connects]_vars

\* One call was admitted and a later one was queued behind it.
C2_Witness ==
    \E r, q \in Reqs :
        /\ st[r] = "connecting" /\ r \in returned
        /\ st[q] = "queued" /\ q \notin returned /\ connects[q] = 0

\* C3: when the TLS socket of an admitted tunnel emits close, active is
\* decremented by one and, if a request is waiting, exactly one (the head
\* of the queue) is removed and restarted in the same step: it takes the
\* freed slot at once, so active is back at its value and no other
\* createConnection call can come between.
C3_CloseReleasesAndRestarts ==
    [][\A r \in Reqs :
          (TlsOpen(r) /\ st'[r] = "closed") =>
              /\ released'[r] = released[r] + 1
              /\ IF waiting = <<>>
                 THEN /\ active' = active - 1
                      /\ waiting' = <<>>
                 ELSE /\ waiting' = Tail(waiting)
                      /\ st[Head(waiting)] = "queued"
                      /\ st'[Head(waiting)] = "connecting"
                      /\ connects'[Head(waiting)] = 1
                      /\ active' = active]_vars

\* A close has restarted a waiting request while another one still waits.
C3_Witness ==
    /\ restartOrder /= <<>>
    /\ waiting /= <<>>
    /\ st[restartOrder[1]] = "connecting"

\* C4: queued requests are restarted in the order they were queued: the
\* requests restarted so far are the first ones that were queued, in the
\* same order.
C4_FifoRestart ==
    /\ Len(restartOrder) <= Len(enqOrder)
    /\ SubSeq(enqOrder, 1, Len(restartOrder)) = restartOrder

\* Two requests were queued, one behind the other, and both restarted.
C4_Witness == Len(restartOrder) >= 2

\* C5: when the CONNECT of an admitted request fails (a transport error
\* before any answer, or an answer other than 200), the surrogate stream
\* emits error and the slot of the request is released: active has been
\* decremented once on its behalf. After the failure no handler is left
\* that could release the slot later: the close handler is registered on
\* the TLS socket only, which was never created.
C5_ConnectFailureReleasesSlot ==
    \A r \in Reqs :
        st[r] = "failed" => (errorEmits[r] = 1 /\ released[r] = 1)

\* C6: destroy on a pending surrogate stream aborts the CONNECT request,
\* and from then on the stream is never connected: no TLS socket is
\* attached to it, no handshake runs, and no ticket negotiated for it is
\* in the session cache.
C6_DestroyPendingNeverConnects ==
    \A r \in Reqs :
        destroyedPending[r] /= "no" =>
        /\ aborted[r]
        /\ ~SurrogateConnected(r)
        /\ st[r] \in {"connecting", "failed"}
        /\ \A k \in Keys : _getSession(sessions, k) /= Ticket(r)

\* A stream was destroyed while its CONNECT was outstanding, and another
\* tunnel of the same agent is secure.
C6_Witness ==
    \E r, q \in Reqs :
        /\ destroyedPending[r] = "connecting"
        /\ st[r] = "connecting"
        /\ st[q] = "secure"

\* C7: when the caller destroys a surrogate stream before it is connected,
\* the slot the request claimed is released exactly once: once the abort
\* has ended the outstanding CONNECT, active has been decremented once on
\* its behalf.
C7_DestroyPendingReleasesOnce ==
    \A r \in Reqs :
        (destroyedPending[r] = "connecting" /\ st[r] = "failed") =>
            released[r] = 1

\* C8: when the TLS handshake of a tunnel with origin key k completes, a
\* look-up of k in the session cache right after returns the ticket
\* negotiated on that tunnel, whatever the cache held for k before.
C8_SecureCachesTicket ==
    [][\A r \in Reqs :
          (st[r] = "handshake" /\ st'[r] = "secure" /\ agentKey[r] \in Keys) =>
              _getSession(sessions', agentKey[r]) = Ticket(r)]_vars

\* Two tunnels to the same key are secure, and the cache holds the ticket
\* of the one created last.
C8_Witness ==
    \E r, q \in Reqs :
        /\ q < r
        /\ agentKey[r] \in Keys /\ agentKey[q] = agentKey[r]
        /\ st[r] = "secure" /\ st[q] = "secure"
        /\ _getSession(sessions, agentKey[r]) = Ticket(r)

\* C9: when a tunnel with origin key k closes with hadError true, a
\* look-up of k right after returns none; when it closes with hadError
\* false, the cache entry of k is what it was.
C9_CloseEvictsOnError ==
    [][\A r \in Reqs :
          (TlsOpen(r) /\ st'[r] = "closed" /\ agentKey[r] \in Keys) =>
              IF tlsEnd[r] = "errored"
              THEN _getSession(sessions', agentKey[r]) = None
              ELSE _getSession(sessions', agentKey[r])
                       = _getSession(sessions, agentKey[r])]_vars

\* A tunnel to k closed with an error while another tunnel to k was secure,
\* its ticket cached: the ticket is gone.
C9_Witness ==
    \E r, q \in Reqs :
        /\ agentKey[r] \in Keys /\ agentKey[q] = agentKey[r]
        /\ st[r] = "closed" /\ errorEmits[r] = 1
        /\ st[q] = "secure" /\ tlsEnd[q] = "open"
        /\ lastClose[agentKey[r]] = "err"
        /\ _getSession(sessions, agentKey[r]) = None

\* C10, as claimed: in every reachable state the session cache holds no
\* ticket for k whenever the tunnel to k that closed last closed with an
\* error.
C10_NoTicketAfterErrorClose ==
    \A k \in Keys : lastClose[k] = "err" => _getSession(sessions, k) = None

\* C10, amended: in every reachable state the session cache holds no ticket
\* for k whenever the tunnel to k that closed last closed with an error and
\* no handshake of a tunnel to k has completed since that close.
C10_NoTicketAfterErrorCloseUntilSecure ==
    \A k \in Keys :
        (lastClose[k] = "err" /\ ~secureSince[k]) =>
            _getSession(sessions, k) = None

\* A tunnel to k closed with an error while two other tunnels to k are up,
\* one secure and one in its handshake; no handshake completed since.
C10_Witness ==
    \E k \in Keys, q, p \in Reqs :
        /\ lastClose[k] = "err" /\ ~secureSince[k]
        /\ agentKey[q] = k /\ st[q] = "secure"
        /\ agentKey[p] = k /\ st[p] = "handshake"

\* C11: when a request is admitted, its options get the cached session of
\* its origin key exactly when it has a key, brought no session of its own,
\* and the cache holds a session for the key; a session the caller supplied
\* is never replaced, and a request without a key never gets a cached one.
C11_AugmentedExactlyWhenCached ==
    [][\A r \in Reqs :
         (st[r] = "idle" /\ st'[r] = "connecting") =>
            LET k == agentKey'[r]
                cached == IF k = NoKey THEN None ELSE sessions[k]
                gets == k /= NoKey /\ ownSession' = None /\ cached /= None
            IN  /\ gets => (session' = cached /\ session' /= ownSession')
                /\ ~gets => session' = ownSession'
                /\ ownSession' /= None => session' = ownSession'
                /\ k = NoKey => session' = ownSession']_vars

\* A request that brought no session is being connected with the session an
\* earlier tunnel to its key left in the cache.
C11_Witness ==
    \E r \in Reqs :
        /\ StreamOf(r)
        /\ st[r] = "connecting"
        /\ agentKey[r] /= NoKey
        /\ ownSession = None
        /\ \E q \in Reqs : q /= r /\ session = Ticket(q)

\* C12: the TLS handshake is started only after the proxy answered the
\* CONNECT with status 200; after any other status the stream gets an
\* error whose message is the reason phrase and whose code is the status,
\* the socket to the proxy is destroyed, and no handshake is started.
C12_HandshakeOnlyAfter200 ==
    \A r \in Reqs :
        StreamOf(r) =>
            /\ SurrogateConnected(r) => connectResponse.statusCode = 200
            /\ (connectResponse /= NoResponse
                /\ connectResponse.statusCode /= 200) =>
                   /\ st[r] = "failed"
                   /\ lastError.message = connectResponse.statusMessage
                   /\ lastError.code = connectResponse.statusCode
                   /\ errorEmits[r] = 1
                   /\ proxySocketDestroyed

\* The proxy answered with a 2xx that is not 200.
C12_Witness ==
    \E r \in Reqs :
        /\ StreamOf(r)
        /\ st[r] = "failed"
        /\ connectResponse.statusCode = 204
        /\ lastError.code = 204
        /\ proxySocketDestroyed

C14_BufferedEqualsDirect ==
    \A r \in Reqs :
        (StreamOf(r) /\ SurrogateConnected(r)) => tls = direct

\* C15: in both phases setTimeout(t, cb) registers cb as one more one-shot
\* listener when t > 0, removes one registration of cb and nothing else when
\* t = 0, removes every listener when t = 0 and there is no cb, and leaves
\* the listeners alone when t > 0 and there is no cb; a 'timeout' event
\* uses the one-shot listeners up.
C15_TimeoutListenerRules ==
    [][\A r \in Reqs :
         /\ \A t \in Timeouts, cb \in Callbacks \cup {NoCallback} :
              SetTimeout(r, t, cb) =>
                LET Other(c) == c /= cb
                    Same(c) == c = cb
                    had == IF \E i \in DOMAIN listeners : listeners[i] = cb
                           THEN 1 ELSE 0
                IN  /\ (t > 0 /\ cb /= NoCallback) =>
                           listeners' = Append(listeners, cb)
                    /\ (t = 0 /\ cb /= NoCallback) =>
                           /\ SelectSeq(listeners', Other) =
                                  SelectSeq(listeners, Other)
                           /\ Len(SelectSeq(listeners', Same)) =
                                  Len(SelectSeq(listeners, Same)) - had
                    /\ (t = 0 /\ cb = NoCallback) => listeners' = <<>>
                    /\ (t > 0 /\ cb = NoCallback) => listeners' = listeners
         /\ (RequestTimeout(r) \/ TlsTimeout(r)) => listeners' = <<>>]_vars

\* On a connected stream whose socket got a timeout at the transition, the
\* last setTimeout was one with 0 and a callback: it cleared the timeout of
\* the socket and left a listener registered.
C15_Witness ==
    \E r \in Reqs :
        /\ StreamOf(r)
        /\ SurrogateConnected(r)
        /\ transitionTimeouts /= <<>>
        /\ transitionTimeouts[1] > 0
        /\ tls.timeout = 0
        /\ Len(listeners) = 1

\* C16: over requests that follow one another on a reused stream, each
\* calling setTimeout(t, cb) when it starts and setTimeout(0, cb) when it
\* is over, the stream never holds more than one 'timeout' listener per
\* request in flight.
C16_OneListenerPerLiveRequest ==
    Len(listeners) <= (IF liveCb /= NoCallback THEN 1 ELSE 0)

\* The last of the requests is in flight on the secure stream, its listener
\* the only one.
C16_Witness ==
    /\ served = MaxCb
    /\ liveCb = MaxCb
    /\ listeners = <<MaxCb>>
    /\ \E r \in Reqs : StreamOf(r) /\ st[r] = "secure"

\* C17: when the CONNECT request times out while the stream is pending, the
\* stream emits 'timeout' once for the event, the CONNECT is not aborted,
\* no error is emitted, and the stream is still waiting for its answer.
C17_ConnectTimeoutOnlyEmits ==
    [][\A r \in Reqs :
         RequestTimeout(r) =>
            /\ timeoutEmits' = timeoutEmits + 1
            /\ ~aborted'[r]
            /\ errorEmits' = errorEmits
            /\ lastError' = lastError
            /\ st'[r] = "connecting"
            /\ connects' = connects]_vars

\* A stream that emitted 'timeout' while pending went on to a completed
\* handshake.
C17_Witness ==
    \E r \in Reqs :
        /\ StreamOf(r)
        /\ timeoutEmits > 0
        /\ st[r] = "secure"

\* 'error' and 'close' events on the stream, those duplexify raises on its
\* own counted with those the agent emits.
ErrorsOnStream(r) == errorEmits[r] + (IF "error" \in bubbled THEN 1 ELSE 0)
ClosesOnStream(r) == closeEmits + (IF "close" \in bubbled THEN 1 ELSE 0)

C19_ExactlyOneTerminalEvent ==
    \A r \in Reqs :
        StreamOf(r) =>
            /\ errorEmits[r] + closeEmits <= 1
            /\ st[r] \in {"failed", "closed"} => errorEmits[r] + closeEmits = 1

\* C19, amended: no failure goes unreported. A failed CONNECT has given the
\* stream one 'error' and no 'close', an error of the TLS socket one
\* 'error', and the closing of the TLS socket one 'close', which follows
\* the 'error' when there was one.
C19_FailureReachesCaller ==
    \A r \in Reqs :
        StreamOf(r) =>
            /\ st[r] = "failed" => (errorEmits[r] = 1 /\ closeEmits = 0)
            /\ tlsEnd[r] = "errored" => errorEmits[r] = 1
            /\ st[r] = "closed" => (closeEmits = 1 /\ errorEmits[r] <= 1)
            /\ closeEmits > 0 => st[r] = "closed"

\* A TLS socket failed and closed: the stream emitted 'error', then 'close'.
C19_Witness ==
    \E r \in Reqs :
        /\ StreamOf(r)
        /\ st[r] = "closed"
        /\ errorEmits[r] = 1
        /\ closeEmits = 1

\* C20: when the TLS socket of a connected stream emits 'close', after an
\* 'end' or without one, the stream emits 'close', its writable flag is
\* false already as the listeners run, and the flag stays false.
C20_CloseSeesWritableFalse ==
    [][\A r \in Reqs :
         StreamOf(r) =>
            /\ (TlsOpen(r) /\ st'[r] = "closed") =>
                   /\ closeEmits' = closeEmits + 1
                   /\ closeSawWritable' = Append(closeSawWritable, FALSE)
                   /\ ~writable'
            /\ (~writable /\ returned' = returned) => ~writable']_vars

\* The TLS socket closed after an 'end'.
C20_Witness ==
    \E r \in Reqs :
        /\ StreamOf(r)
        /\ st[r] = "closed"
        /\ seenEnd
        /\ closeEmits = 1
        /\ closeSawWritable = <<FALSE>>
        /\ ~writable


\* C21: every admitted request has issued exactly one CONNECT, whatever
\* became of it afterwards (refused, failed, destroyed, closed), and a
\* request that is idle or waiting in the queue has issued none; so once
\* N requests have been admitted and their tunnels are all closed, exactly
\* N CONNECT requests have been issued.
C21_OneConnectPerAdmittedRequest ==
    \A r \in Reqs :
        connects[r] = IF st[r] \in {"idle", "queued"} THEN 0 ELSE 1

\* Three tunnels used one after the other, each closed after use: three
\* CONNECT requests; the later ones were restarted from the queue or
\* admitted directly.
C21_Witness ==
    /\ \A r \in Reqs : st[r] = "closed" /\ connects[r] = 1
    /\ \E r \in Reqs : r \notin returned

\* C23 as stated: two requests, of whatever agents, get the same pool name
\* only if they have the same origin key and the same proxy key.
C23_SameNameOnlyIfSameKeys ==
    (call.fn = "getName" /\ call.done /\ call.name[1] = call.name[2])
        => (call.origin[1] = call.origin[2] /\ call.proxy[1] = call.proxy[2])

\* C23: getName returns the origin's pool key, a ':' and the proxy's pool
\* key, in this order; equal keys give equal names; and two requests of
\* agents with the same proxy key (of one agent, in particular) get the
\* same name only if they have the same origin key.
C23_NameJoinsKeys ==
    (call.fn = "getName" /\ call.done) =>
        /\ \A i \in 1..2 :
              LET n == call.name[i]
                  o == call.origin[i]
                  x == call.proxy[i]
              IN  /\ Len(n) = Len(o) + 1 + Len(x)
                  /\ SubSeq(n, 1, Len(o)) = o
                  /\ n[Len(o) + 1] = Colon
                  /\ SubSeq(n, Len(o) + 2, Len(n)) = x
        /\ (call.origin[1] = call.origin[2] /\ call.proxy[1] = call.proxy[2])
              => call.name[1] = call.name[2]
        /\ (call.proxy[1] = call.proxy[2] /\ call.name[1] = call.name[2])
              => call.origin[1] = call.origin[2]

\* Two requests to different origins through the same proxy: different
\* names.
C23_Witness ==
    /\ call.fn = "getName"
    /\ call.done
    /\ call.proxy[1] = call.proxy[2]
    /\ call.origin[1] /= call.origin[2]
    /\ call.name[1] /= call.name[2]

\* C24: the CONNECT target is the name, a ':' and the port, the name being
\* hostname when it is present and host otherwise; so with hostname 'h',
\* host 'h:p' and port p the target is 'h:p', which is host itself, and
\* not 'h:p:p'.
C24_TargetPrefersHostname ==
    (call.fn = "connect" /\ call.done) =>
        LET o == call.options
            port == NumberToString(o.port)
            present == o.hostname.type = "string" /\ o.hostname.s /= <<>>
            name == IF present THEN o.hostname.s ELSE o.host.s
        IN  /\ call.path = name \o <<Colon>> \o port
            /\ (present /\ o.host.s = o.hostname.s \o <<Colon>> \o port)
                  => /\ call.path = o.host.s
                     /\ call.path /= o.host.s \o <<Colon>> \o port

\* hostname 'a', host 'a:10', port 10: the target is 'a:10'.
C24_Witness ==
    /\ call.fn = "connect"
    /\ call.done
    /\ call.options.hostname = JsString(<<Letter>>)
    /\ call.options.host = JsString(<<Letter, Colon, "1", "0">>)
    /\ call.options.port = MaxPort
    /\ call.path = <<Letter, Colon, "1", "0">>

\* C26 as stated: the stream holds a TLS socket exactly while it is
\* connected; the handle is null while the stream is pending, after a
\* failure before it was connected, and after the stream has closed.
C26_HandleExactlyWhileConnected ==
    \A r \in Reqs :
        StreamOf(r) =>
            (surrogateConnectedStream /= NoStream
                <=> st[r] \in {"handshake", "secure"})

\* C26: the handle is null while the stream is pending and after a
\* failure before it was connected; it is the TLS socket from the moment
\* _connectSurrogateStream has run, and stays so after the stream has
\* closed.
C26_HandleSetOnceConnected ==
    \A r \in Reqs :
        StreamOf(r) =>
            /\ SurrogatePending(r) => surrogateConnectedStream = NoStream
            /\ SurrogateConnected(r) => surrogateConnectedStream = TlsSocket

\* A stream that was connected and has closed: it still holds the socket.
C26_Witness ==
    \E r \in Reqs :
        /\ StreamOf(r)
        /\ st[r] = "closed"
        /\ closeEmits = 1
        /\ surrogateConnectedStream = TlsSocket

C27_WaiterHasLiveTunnelAhead ==
    waiting /= <<>> =>
        \E r \in Reqs : st[r] \in {"connecting", "handshake", "secure"}

\* C28: a request that has left the queue and been restarted has had the
\* stream created for it delivered to the caller that asked for it, as
\* every request admitted directly has.
C28_RestartedStreamDelivered ==
    \A r \in Reqs :
        st[r] \notin {"idle", "queued"} => r \in returned

\* C29: whenever a request waits in the queue, the active counter equals
\* the cap.
C29_QueueOnlyAtCap ==
    waiting /= <<>> => (maxSockets /= 0 /\ active = maxSockets)

\* A tunnel has closed and its handler has restarted the oldest waiter,
\* while another request still waits: the counter is back at the cap.
C29_Witness ==
    /\ waiting /= <<>>
    /\ restartOrder /= <<>>
    /\ \E r \in Reqs : st[r] = "closed" /\ released[r] = 1
    /\ active = maxSockets

\* C30: a timeout callback runs only when a timeout elapses while its
\* request is the one in flight, and at most once: each timeout that
\* elapses runs the callback of the request in flight and no other, the
\* callbacks of the requests that ended and cleared theirs are never run,
\* and no callback runs a second time. So over two requests served one
\* after the other on one tunnel, the callbacks run once if the timeout
\* elapses during the second only, and twice if during both.
C30_TimeoutCallbackOncePerRequest ==
    [][/\ timedOut' /= timedOut
            => /\ liveCb /= NoCallback
               /\ timedOut' = Append(timedOut, liveCb)
               /\ \A i \in DOMAIN timedOut : timedOut[i] /= liveCb
       /\ \A i \in DOMAIN timedOut' : timedOut'[i] \in 1..served']_vars

\* Two requests on one tunnel; the first ended and cleared its timeout, the
\* timeout of the second elapsed: one callback has run, the second's.
C30_Witness ==
    \E r \in Reqs :
        /\ StreamOf(r)
        /\ st[r] = "secure"
        /\ served = 2
        /\ timedOut = <<2>>

====
